---- MODULE Spec2Model ----
(***************************************************************************)
(* BOM2Pic: the Excel image extraction engine of app/excel_processor.py.   *)
(*                                                                         *)
(* Text (column letters, labels, file names) is a sequence of code points, *)
(* image content a sequence of byte values, so that upper(), strip(),      *)
(* isalpha(), normalisation and the f-string concatenations are computed   *)
(* character by character as the Python code computes them.                *)
(***************************************************************************)
EXTENDS Integers, Sequences, FiniteSets, TLC

VARIABLES
    pc,              \* position of the running call
    files_data,      \* process_excel_files: the uploaded workbooks, in order
    image_column,    \* process_excel_files: image column letters
    name_column,     \* process_excel_files: name column letters
    fi,              \* process_excel_files: position of the for loop over files_data
    all_images,      \* process_excel_files: all_images
    zi,              \* create_images_zip: position of the for loop over images
    seen_names,      \* create_images_zip: seen_names
    saved_count,     \* create_images_zip: saved_count
    duplicate_count, \* create_images_zip: duplicate_count
    manifest_rows,   \* create_images_zip: manifest_rows
    zip_entries,     \* create_images_zip: the entries written into zf, in order
    result,          \* what process_excel_files returned or raised
    letter,          \* column_letter_to_index: its argument
    index,           \* column_letter_to_index: what it returned or raised
    label,           \* normalize_filename: its argument name
    stem,            \* normalize_filename: what it returned
    content,         \* detect_image_extension: its argument image_bytes
    extension,       \* detect_image_extension: what it returned
    earlier,         \* what the earlier runs of process_excel_files returned or raised
    users,           \* auth: the rows of the users table, by email
    now,             \* the clock: datetime.now() in days, time.time() in seconds
    requests,        \* rate_limiter.requests: the timestamps kept per client IP
    procs,           \* the requests in flight: position and local variables of each
    response,        \* /api/process: the response of the last request
    observed         \* record of what has happened so far (purchases, admissions)

vars == <<pc, files_data, image_column, name_column, fi, all_images, zi,
          seen_names, saved_count, duplicate_count, manifest_rows,
          zip_entries, result, letter, index, label, stem, content, extension,
          earlier, users, now, requests, procs, response, observed>>

\* the state of normalize_filename and detect_image_extension called on their own
unit_vars == <<label, stem, content, extension>>

\* the state of the web service around the extraction engine
service_vars == <<earlier, users, now, requests, procs, response, observed>>

\* the state of the extraction engine
engine_vars == <<pc, files_data, image_column, name_column, fi, all_images, zi,
                 seen_names, saved_count, duplicate_count, manifest_rows,
                 zip_entries, result, letter, index>>

(***************************************************************************)
(* Bounds of the model.                                                    *)
(***************************************************************************)
MaxFiles == 2        \* workbooks per request
MaxSheets == 2       \* sheets per workbook
MaxImages == 3       \* embedded images per request, all workbooks together
MaxLetterLen == 3    \* length of a column identifier handed to the codec
MaxLabelLen == 3     \* length of a short label handed to normalize_filename
MaxPad == 2          \* how far a long label's filling lies from the 50 limit
MaxContentTail == 2  \* bytes that follow the signature of an image content
MaxRuns == 2         \* runs of process_excel_files on the same arguments
MaxOps == 5          \* requests and clock steps of the account service
MaxClockSteps == 2   \* steps of the clock of the rate limiter

(***************************************************************************)
(* The web service at rest: nobody has signed up, no request has been      *)
(* counted, no request is in flight.                                       *)
(***************************************************************************)
Emails == {"a@x.io", "b@x.io"}
\* rate_limiter.requests keeps one deque per client IP, each touched only by
\* the calls of that client: one client is followed
ClientIps == {"10.0.0.1"}
Procs == {1, 2}

\* a date column of the users table: None, or the day it holds
NoDate == [set |-> FALSE, at |-> 0]
Date(d) == [set |-> TRUE, at |-> d]

\* users.get(email) of an email without a row
NoUser ==
    [exists |-> FALSE, plan |-> "", trial_end |-> NoDate,
     subscription_status |-> "", subscription_type |-> "",
     expires_at |-> NoDate, is_active |-> FALSE]

NoUsers == [e \in Emails |-> NoUser]

\* a request that has not started: its operation, its arguments, the users
\* dict it holds and the one of the create_user it calls
NoProc ==
    [pc |-> "idle", op |-> "", email |-> "", subscription_type |-> "",
     users |-> NoUsers, inner |-> NoUsers]

NoResponse == [status |-> 0, access |-> FALSE, called |-> FALSE, email |-> ""]

NothingObserved ==
    [ops |-> 0,
     lifetime |-> {},
     per_file |-> [e \in Emails |-> [bought |-> FALSE, granted |-> 0]],
     admitted |-> [ip \in ClientIps |-> <<>>],
     verdict |-> [allowed |-> FALSE, remaining |-> 0, recorded |-> FALSE]]

ServiceIdle ==
    /\ earlier = <<>>
    /\ users = NoUsers
    /\ now = 0
    /\ requests = [ip \in ClientIps |-> <<>>]
    /\ procs = [p \in Procs |-> NoProc]
    /\ response = NoResponse
    /\ observed = NothingObserved

(***************************************************************************)
(* Python str helpers, on sequences of code points below 256.              *)
(***************************************************************************)
\* str.isspace() of one character.
IsSpace(c) == c \in {9, 10, 11, 12, 13, 28, 29, 30, 31, 32, 133, 160}

\* str.isalpha() of one character (ASCII and Latin-1 letters).
IsAlphaChar(c) ==
    c \in (65..90) \cup (97..122) \cup {170, 181, 186}
          \cup (192..214) \cup (216..246) \cup (248..255)

\* str.upper() of one character whose upper case is one character below 256.
UpperChar(c) ==
    IF c \in (97..122) \cup (224..246) \cup (248..254) THEN c - 32 ELSE c

Upper(s) == [i \in 1..Len(s) |-> UpperChar(s[i])]

RECURSIVE LStrip(_)
LStrip(s) == IF s # <<>> /\ IsSpace(Head(s)) THEN LStrip(Tail(s)) ELSE s

RECURSIVE RStrip(_)
RStrip(s) ==
    IF s # <<>> /\ IsSpace(s[Len(s)]) THEN RStrip(SubSeq(s, 1, Len(s) - 1)) ELSE s

\* str.strip()
Strip(s) == RStrip(LStrip(s))

\* str.isalpha(): at least one character and all of them alphabetic.
IsAlpha(s) == s # <<>> /\ \A i \in 1..Len(s) : IsAlphaChar(s[i])

\* str(n) of a non-negative int: its decimal digits.
RECURSIVE IntToStr(_)
IntToStr(n) ==
    IF n < 10 THEN <<48 + n>> ELSE IntToStr(n \div 10) \o <<48 + (n % 10)>>

(***************************************************************************)
(* column_letter_to_index                                                  *)
(***************************************************************************)
\* the for loop: result = result * 26 + (ord(char) - ord('A') + 1)
RECURSIVE LetterValue(_, _)
LetterValue(s, acc) ==
    IF s = <<>> THEN acc
    ELSE LetterValue(Tail(s), acc * 26 + (Head(s) - 65 + 1))

\* letter = letter.upper().strip()
CleanLetter(l) == Strip(Upper(l))

\* a plausible slip: digits 0..25 instead of 1..26
ColumnLetterToIndexZeroBased(l) ==
    LET s == CleanLetter(l) IN
    IF ~IsAlpha(s) \/ Len(s) > 2
    THEN [ok |-> FALSE, value |-> 0]
    ELSE IF Len(s) = 1 THEN [ok |-> TRUE, value |-> s[1] - 65]
         ELSE [ok |-> TRUE, value |-> (s[1] - 65) * 26 + (s[2] - 65)]

\* [ok |-> FALSE] stands for the ValueError "Invalid column letter".
ColumnLetterToIndex(l) ==
    LET s == CleanLetter(l) IN
    IF ~IsAlpha(s) \/ Len(s) > 2
    THEN [ok |-> FALSE, value |-> 0]
    ELSE [ok |-> TRUE, value |-> LetterValue(s, 0) - 1]

(***************************************************************************)
(* Text constants of the source, as code points.                           *)
(***************************************************************************)
StrImage == <<105, 109, 97, 103, 101>>                   \* "image"
StrImageUnderscore == StrImage \o <<95>>                   \* "image_"
ImagesDir == <<105, 109, 97, 103, 101, 115, 47>>          \* "images/"
ReportName == <<114, 101, 112, 111, 114, 116, 46, 99, 115, 118>>  \* "report.csv"
ExtJpg == <<106, 112, 103>>
ExtPng == <<112, 110, 103>>
ExtGif == <<103, 105, 102>>
ExtBmp == <<98, 109, 112>>
ExtTif == <<116, 105, 102>>
ExtWebp == <<119, 101, 98, 112>>
ReportHeader == <<"sheet", "row", "part_name", "filename", "action">>

(***************************************************************************)
(* normalize_filename                                                      *)
(***************************************************************************)
\* the character class of re.sub(r'[<>:"/\\|?*]', '', clean)
InvalidChars == {60, 62, 58, 34, 47, 92, 124, 63, 42}

RECURSIVE RemoveInvalid(_)
RemoveInvalid(s) ==
    IF s = <<>> THEN <<>>
    ELSE IF Head(s) \in InvalidChars THEN RemoveInvalid(Tail(s))
         ELSE <<Head(s)>> \o RemoveInvalid(Tail(s))

\* re.sub(r'\s+', '_', clean): every run of whitespace becomes one underscore
RECURSIVE ReplaceSpaces(_)
ReplaceSpaces(s) ==
    IF s = <<>> THEN <<>>
    ELSE IF IsSpace(Head(s))
         THEN <<95>> \o ReplaceSpaces(LStrip(s))
         ELSE <<Head(s)>> \o ReplaceSpaces(Tail(s))

\* clean[:50]
StemLimit == 50
Truncate(s) == IF Len(s) > StemLimit THEN SubSeq(s, 1, StemLimit) ELSE s

\* a plausible slip: an invalid character becomes an underscore
ReplaceInvalid(s) == [i \in 1..Len(s) |-> IF s[i] \in InvalidChars THEN 95 ELSE s[i]]

NormalizeFilenameUnderscoreInvalid(name) ==
    IF name = <<>> \/ Strip(name) = <<>> THEN StrImage
    ELSE LET clean == Truncate(ReplaceSpaces(ReplaceInvalid(Strip(name))))
         IN  IF clean = <<>> THEN StrImage ELSE clean

\* a plausible slip: the slice clean[:50] is missing
NormalizeFilenameNoTruncate(name) ==
    IF name = <<>> \/ Strip(name) = <<>> THEN StrImage
    ELSE LET clean == ReplaceSpaces(RemoveInvalid(Strip(name)))
         IN  IF clean = <<>> THEN StrImage ELSE clean

NormalizeFilename(name) ==
    IF name = <<>> \/ Strip(name) = <<>> THEN StrImage
    ELSE LET clean == Truncate(ReplaceSpaces(RemoveInvalid(Strip(name))))
         IN  IF clean = <<>> THEN StrImage ELSE clean

(***************************************************************************)
(* detect_image_extension.  Image.open recognises a format by the          *)
(* signature the content starts with; the model keeps the leading bytes    *)
(* of each signature.                                                      *)
(***************************************************************************)
HasPrefix(b, p) == Len(b) >= Len(p) /\ SubSeq(b, 1, Len(p)) = p

\* img.format, or "none" when Image.open raises
ImageFormat(b) ==
    CASE HasPrefix(b, <<137, 80, 78, 71>>) -> "PNG"
      [] HasPrefix(b, <<255, 216, 255>>) -> "JPEG"
      [] HasPrefix(b, <<71, 73, 70, 56>>) -> "GIF"
      [] HasPrefix(b, <<66, 77>>) -> "BMP"
      [] HasPrefix(b, <<73, 73, 42, 0>>) -> "TIFF"
      [] HasPrefix(b, <<82, 73, 70, 70>>) -> "WEBP"
      [] HasPrefix(b, <<80, 54>>) -> "PPM"
      [] OTHER -> "none"

\* a plausible slip: the extension is img.format.lower(), without format_map
DetectImageExtensionLower(b) ==
    LET f == ImageFormat(b) IN
    CASE f = "JPEG" -> <<106, 112, 101, 103>>
      [] f = "PNG" -> ExtPng
      [] f = "GIF" -> ExtGif
      [] f = "BMP" -> ExtBmp
      [] f = "TIFF" -> <<116, 105, 102, 102>>
      [] f = "WEBP" -> ExtWebp
      [] f = "PPM" -> <<112, 112, 109>>
      [] OTHER -> ExtPng

\* format_map.get(img.format, 'png'), and 'png' after any exception
DetectImageExtension(b) ==
    LET f == ImageFormat(b) IN
    CASE f = "JPEG" -> ExtJpg
      [] f = "PNG" -> ExtPng
      [] f = "GIF" -> ExtGif
      [] f = "BMP" -> ExtBmp
      [] f = "TIFF" -> ExtTif
      [] f = "WEBP" -> ExtWebp
      [] OTHER -> ExtPng

\* filename = f"{base_name}.{extension}"
Filename(img) ==
    NormalizeFilename(img.name_raw) \o <<46>> \o DetectImageExtension(img.image_bytes)

(***************************************************************************)
(* extract_images_from_excel.  A workbook is [ok, sheets]: ok is FALSE     *)
(* when openpyxl.load_workbook raises; a sheet is [name, cells, images],   *)
(* an image [row, col, data, has_from, readable] with the zero-based       *)
(* anchor._from; readable is FALSE when img.ref.getvalue() raises.         *)
(***************************************************************************)
NoneValue == [t |-> "none", s |-> <<>>, n |-> 0]
StrValue(s) == [t |-> "str", s |-> s, n |-> 0]
IntValue(n) == [t |-> "int", s |-> <<>>, n |-> n]

\* sheet.cell(row=r, column=c).value
CellValue(sheet, r, c) ==
    IF <<r, c>> \in DOMAIN sheet.cells THEN sheet.cells[<<r, c>>] ELSE NoneValue

\* truth value of a cell value: None, "" and 0 are false
Truthy(v) == (v.t = "str" /\ v.s # <<>>) \/ (v.t = "int" /\ v.n # 0)

\* str(name_cell.value)
PyStr(v) == IF v.t = "str" THEN v.s ELSE IntToStr(v.n)

\* the ImageData built for one matching image
MakeImageData(sheet, img, name_col_idx) ==
    LET v == CellValue(sheet, img.row + 1, name_col_idx + 1) IN
    [name_raw |-> IF Truthy(v) THEN PyStr(v)
                  ELSE StrImageUnderscore \o IntToStr(img.row),
     image_bytes |-> img.data,
     sheet |-> sheet.name,
     row |-> img.row + 1]

\* a plausible slip: the test of the anchor column is missing
RECURSIVE ScanImagesAnyColumn(_, _, _, _)
ScanImagesAnyColumn(sheet, i, image_col_idx, name_col_idx) ==
    IF i > Len(sheet.images) THEN [ok |-> TRUE, images |-> <<>>]
    ELSE LET img == sheet.images[i]
             rest == ScanImagesAnyColumn(sheet, i + 1, image_col_idx, name_col_idx)
         IN  IF img.has_from
             THEN IF ~img.readable THEN [ok |-> FALSE, images |-> <<>>]
                  ELSE [ok |-> rest.ok,
                        images |-> <<MakeImageData(sheet, img, name_col_idx)>> \o rest.images]
             ELSE rest

\* for img in sheet._images, from position i on: [ok, images], ok FALSE when
\* a statement of the loop raised (img.ref.getvalue() of an image whose
\* content cannot be copied); images are then those appended to
\* extracted_images before the exception
RECURSIVE ScanImages(_, _, _, _)
ScanImages(sheet, i, image_col_idx, name_col_idx) ==
    IF i > Len(sheet.images) THEN [ok |-> TRUE, images |-> <<>>]
    ELSE LET img == sheet.images[i]
             rest == ScanImages(sheet, i + 1, image_col_idx, name_col_idx)
         IN  IF img.has_from /\ img.col = image_col_idx
             THEN IF ~img.readable THEN [ok |-> FALSE, images |-> <<>>]
                  ELSE [ok |-> rest.ok,
                        images |-> <<MakeImageData(sheet, img, name_col_idx)>> \o rest.images]
             ELSE rest

\* for sheet_name in workbook.sheetnames, from position k on
RECURSIVE ScanSheets(_, _, _, _)
ScanSheets(sheets, k, image_col_idx, name_col_idx) ==
    IF k > Len(sheets) THEN [ok |-> TRUE, images |-> <<>>]
    ELSE LET first == ScanImages(sheets[k], 1, image_col_idx, name_col_idx)
         IN  IF ~first.ok THEN first
             ELSE LET rest == ScanSheets(sheets, k + 1, image_col_idx, name_col_idx)
                  IN  [ok |-> rest.ok, images |-> first.images \o rest.images]

\* a plausible slip: a workbook without a matching image is reported as a failure
ExtractImagesFromExcelFailsWhenEmpty(wb, image_col_letter, name_col_letter) ==
    LET ic == ColumnLetterToIndex(image_col_letter)
        nc == ColumnLetterToIndex(name_col_letter)
    IN  IF ~ic.ok \/ ~nc.ok \/ ~wb.ok
        THEN [ok |-> FALSE, images |-> <<>>]
        ELSE LET r == ScanSheets(wb.sheets, 1, ic.value, nc.value)
             IN  IF r.ok THEN [ok |-> r.images # <<>>, images |-> r.images]
                 ELSE [ok |-> FALSE, images |-> <<>>]

\* the list the call returns; [ok |-> FALSE] stands for the ValueError
\* "Failed to process Excel file" raised for any exception of the try block,
\* the local extracted_images being lost with it
ExtractImagesFromExcel(wb, image_col_letter, name_col_letter) ==
    LET ic == ColumnLetterToIndex(image_col_letter)
        nc == ColumnLetterToIndex(name_col_letter)
    IN  IF ~ic.ok \/ ~nc.ok \/ ~wb.ok
        THEN [ok |-> FALSE, images |-> <<>>]
        ELSE LET r == ScanSheets(wb.sheets, 1, ic.value, nc.value)
             IN  IF r.ok THEN r ELSE [ok |-> FALSE, images |-> <<>>]

(***************************************************************************)
(* The requests of the model.                                              *)
(***************************************************************************)
SeqsUpTo(S, n) == UNION {[1..k -> S] : k \in 0..n}

\* image content: two PNG images, one JPEG image
PngA == <<137, 80, 78, 71, 1>>
PngB == <<137, 80, 78, 71, 2>>
JpgA == <<255, 216, 255, 1>>
ImageBytes == {PngA, PngB, JpgA}

\* images anchored in column B: on sheet row 2 (zero-based 1) one of each
\* content, on sheet row 3 one; an image anchored in column C; an image with
\* an absolute anchor (no _from)
ImageSet ==
    {[row |-> 1, col |-> 1, data |-> d, has_from |-> TRUE, readable |-> TRUE] :
        d \in ImageBytes}
    \cup {[row |-> 2, col |-> 1, data |-> PngA, has_from |-> TRUE, readable |-> TRUE],
          [row |-> 1, col |-> 2, data |-> PngA, has_from |-> TRUE, readable |-> TRUE],
          [row |-> 1, col |-> 0, data |-> PngB, has_from |-> FALSE, readable |-> TRUE]}

\* the label cells of the k-th sheet of a workbook: column C holds X1 on
\* row 2 and nothing on row 3 of the first sheet, X:1 on row 2 and the
\* number 0 on row 3 of the others
SheetCells(k) ==
    IF k = 1
    THEN (<<2, 3>> :> StrValue(<<88, 49>>))
    ELSE (<<2, 3>> :> StrValue(<<88, 58, 49>>)) @@ (<<3, 3>> :> IntValue(0))

\* the k-th sheet is named S<k>
SheetName(k) == <<83>> \o IntToStr(k)

\* lists of at most s sheets' image lists, each sheet with an image, holding
\* at most n images together
RECURSIVE SheetLists(_, _)
SheetLists(s, n) ==
    IF s = 0 THEN {<<>>}
    ELSE {<<>>} \cup UNION {{<<imgs>> \o rest : rest \in SheetLists(s - 1, n - Len(imgs))} :
                               imgs \in SeqsUpTo(ImageSet, n) \ {<<>>}}

MakeWorkbook(sl) ==
    [ok |-> TRUE,
     sheets |-> [k \in 1..Len(sl) |->
                    [name |-> SheetName(k), cells |-> SheetCells(k), images |-> sl[k]]]]

\* a file openpyxl cannot load
CorruptWorkbook == [ok |-> FALSE, sheets |-> <<>>]

\* a loadable workbook has at least one sheet: one sheet without an image,
\* or sheets with images
Workbooks(n) ==
    {CorruptWorkbook, MakeWorkbook(<<<<>>>>)}
    \cup {MakeWorkbook(sl) : sl \in SheetLists(MaxSheets, n) \ {<<>>}}

RECURSIVE SumLen(_)
SumLen(ss) == IF ss = <<>> THEN 0 ELSE Len(Head(ss)) + SumLen(Tail(ss))

\* the embedded images of a workbook, whatever their column
CountImages(wb) == SumLen([k \in 1..Len(wb.sheets) |-> wb.sheets[k].images])

\* lists of at most f workbooks holding at most n images together
RECURSIVE FileLists(_, _)
FileLists(f, n) ==
    IF f = 0 THEN {<<>>}
    ELSE {<<>>} \cup UNION {{<<wb>> \o rest : rest \in FileLists(f - 1, n - CountImages(wb))} :
                               wb \in Workbooks(n)}

\* "B", "c " for the image column; "C", "1" for the name column
ImageColumnInputs == {<<66>>, <<99, 32>>}
NameColumnInputs == {<<67>>, <<49>>}

NoResult ==
    [kind |-> "none", error |-> "", zip |-> <<>>, total |-> 0, saved |-> 0, duplicates |-> 0]

(***************************************************************************)
(* process_excel_files and create_images_zip                               *)
(***************************************************************************)
\* process_excel_files entered: all_images = []
Init ==
    /\ files_data \in FileLists(MaxFiles, MaxImages)
    /\ image_column \in ImageColumnInputs
    /\ name_column \in NameColumnInputs
    /\ pc = "scan"
    /\ fi = 1
    /\ all_images = <<>>
    /\ zi = 0
    /\ seen_names = {}
    /\ saved_count = 0
    /\ duplicate_count = 0
    /\ manifest_rows = <<>>
    /\ zip_entries = <<>>
    /\ result = NoResult
    /\ letter = <<>>
    /\ index = [ok |-> FALSE, value |-> 0]
    /\ ServiceIdle
    /\ label = <<>>
    /\ stem = <<>>
    /\ content = <<>>
    /\ extension = <<>>

\* a plausible slip: the images of a file are put in front of the earlier ones
ScanFilePrepend ==
    /\ pc = "scan"
    /\ fi <= Len(files_data)
    /\ LET r == ExtractImagesFromExcel(files_data[fi], image_column, name_column)
       IN  all_images' = IF r.ok THEN r.images \o all_images ELSE all_images
    /\ fi' = fi + 1
    /\ UNCHANGED <<pc, files_data, image_column, name_column, zi, seen_names,
                   saved_count, duplicate_count, manifest_rows, zip_entries,
                   result, letter, index, unit_vars, service_vars>>

\* a plausible slip: "break" instead of "continue" after a failed file
ScanFileBreakOnFailure ==
    /\ pc = "scan"
    /\ fi <= Len(files_data)
    /\ LET r == ExtractImagesFromExcel(files_data[fi], image_column, name_column)
       IN  /\ all_images' = IF r.ok THEN all_images \o r.images ELSE all_images
           /\ fi' = IF r.ok THEN fi + 1 ELSE Len(files_data) + 1
    /\ UNCHANGED <<pc, files_data, image_column, name_column, zi, seen_names,
                   saved_count, duplicate_count, manifest_rows, zip_entries,
                   result, letter, index, unit_vars, service_vars>>

\* a plausible slip: the images a failing scan had collected are kept
ScanFileKeepPartial ==
    /\ pc = "scan"
    /\ fi <= Len(files_data)
    /\ LET r == ExtractImagesFromExcel(files_data[fi], image_column, name_column)
           ic == ColumnLetterToIndex(image_column)
           nc == ColumnLetterToIndex(name_column)
       IN  all_images' =
               IF r.ok THEN all_images \o r.images
               ELSE IF ic.ok /\ nc.ok /\ files_data[fi].ok
                    THEN all_images
                         \o ScanSheets(files_data[fi].sheets, 1, ic.value, nc.value).images
                    ELSE all_images
    /\ fi' = fi + 1
    /\ UNCHANGED <<pc, files_data, image_column, name_column, zi, seen_names,
                   saved_count, duplicate_count, manifest_rows, zip_entries,
                   result, letter, index, unit_vars, service_vars>>

\* one turn of "for filename, file_bytes in files_data": a failed file is skipped
ScanFile ==
    /\ pc = "scan"
    /\ fi <= Len(files_data)
    /\ LET r == ExtractImagesFromExcel(files_data[fi], image_column, name_column)
       IN  all_images' = IF r.ok THEN all_images \o r.images ELSE all_images
    /\ fi' = fi + 1
    /\ UNCHANGED <<pc, files_data, image_column, name_column, zi, seen_names,
                   saved_count, duplicate_count, manifest_rows, zip_entries,
                   result, letter, index, unit_vars, service_vars>>

\* a plausible slip: the test sits inside the loop and fires as soon as one
\* file has been scanned without an image so far
RaiseNoImagesFoundEarly ==
    /\ pc = "scan"
    /\ fi > 1
    /\ all_images = <<>>
    /\ pc' = "error"
    /\ result' = [NoResult EXCEPT !.kind = "error", !.error = "NoImagesFound"]
    /\ UNCHANGED <<files_data, image_column, name_column, fi, all_images, zi,
                   seen_names, saved_count, duplicate_count, manifest_rows,
                   zip_entries, letter, index, unit_vars, service_vars>>

\* a plausible slip: an empty result is returned instead of the error
RaiseNoImagesFoundReturnsEmpty ==
    /\ pc = "scan"
    /\ fi > Len(files_data)
    /\ all_images = <<>>
    /\ pc' = "done"
    /\ result' = [NoResult EXCEPT !.kind = "ok"]
    /\ UNCHANGED <<files_data, image_column, name_column, fi, all_images, zi,
                   seen_names, saved_count, duplicate_count, manifest_rows,
                   zip_entries, letter, index, unit_vars, service_vars>>

\* "if not all_images: raise ValueError(No images found ...)"
RaiseNoImagesFound ==
    /\ pc = "scan"
    /\ fi > Len(files_data)
    /\ all_images = <<>>
    /\ pc' = "error"
    /\ result' = [NoResult EXCEPT !.kind = "error", !.error = "NoImagesFound"]
    /\ UNCHANGED <<files_data, image_column, name_column, fi, all_images, zi,
                   seen_names, saved_count, duplicate_count, manifest_rows,
                   zip_entries, letter, index, unit_vars, service_vars>>

\* a plausible slip: the guard "if not images: raise" is missing
CreateImagesZipEntryNoGuard ==
    /\ pc' = "pack"
    /\ zi' = 1
    /\ seen_names' = {}
    /\ saved_count' = 0
    /\ duplicate_count' = 0
    /\ manifest_rows' = <<>>
    /\ zip_entries' = <<>>
    /\ UNCHANGED result

\* the head of create_images_zip(images), images being all_images:
\* "if not images: raise ValueError(No images to process)", else its locals
\* are set up and the archive is opened empty
CreateImagesZipEntry ==
    IF all_images = <<>>
    THEN /\ pc' = "error"
         /\ result' = [NoResult EXCEPT !.kind = "error", !.error = "EmptyInput"]
         /\ UNCHANGED <<zi, seen_names, saved_count, duplicate_count,
                        manifest_rows, zip_entries>>
    ELSE /\ pc' = "pack"
         /\ zi' = 1
         /\ seen_names' = {}
         /\ saved_count' = 0
         /\ duplicate_count' = 0
         /\ manifest_rows' = <<>>
         /\ zip_entries' = <<>>
         /\ UNCHANGED result

\* process_excel_files calls create_images_zip(all_images), which it reaches
\* only past "if not all_images: raise"
EnterCreateImagesZip ==
    /\ pc = "scan"
    /\ fi > Len(files_data)
    /\ all_images # <<>>
    /\ CreateImagesZipEntry
    /\ UNCHANGED <<files_data, image_column, name_column, fi, all_images,
                   letter, index, unit_vars, service_vars>>

\* create_images_zip(images) called on its own, not by process_excel_files
CallCreateImagesZip ==
    /\ pc = "zip_call"
    /\ CreateImagesZipEntry
    /\ UNCHANGED <<files_data, image_column, name_column, fi, all_images,
                   letter, index, unit_vars, service_vars>>

\* an entry of the archive: zf.writestr(name, data); csv holds the rows of
\* report.csv for the manifest entry
ZipEntry(name, data, csv) == [name |-> name, data |-> data, csv |-> csv]

ManifestRow(img_data, filename, action) ==
    [sheet |-> img_data.sheet, row |-> img_data.row, part_name |-> img_data.name_raw,
     filename |-> filename, action |-> action]

\* a plausible slip: a duplicate is not counted
PackImageNoDupCount ==
    /\ pc = "pack"
    /\ zi <= Len(all_images)
    /\ LET img_data == all_images[zi]
           filename == Filename(img_data)
           dup == filename \in seen_names
           action == IF dup THEN "Duplicate" ELSE "Saved"
       IN  /\ duplicate_count' = duplicate_count
           /\ saved_count' = IF dup THEN saved_count ELSE saved_count + 1
           /\ seen_names' = IF dup THEN seen_names ELSE seen_names \cup {filename}
           /\ zip_entries' = Append(zip_entries,
                                    ZipEntry(ImagesDir \o filename, img_data.image_bytes, <<>>))
           /\ manifest_rows' = Append(manifest_rows, ManifestRow(img_data, filename, action))
    /\ zi' = zi + 1
    /\ UNCHANGED <<pc, files_data, image_column, name_column, fi, all_images,
                   result, letter, index, unit_vars, service_vars>>

\* a plausible slip: a duplicate gets no manifest row
PackImageSkipDupRow ==
    /\ pc = "pack"
    /\ zi <= Len(all_images)
    /\ LET img_data == all_images[zi]
           filename == Filename(img_data)
           dup == filename \in seen_names
           action == IF dup THEN "Duplicate" ELSE "Saved"
       IN  /\ duplicate_count' = IF dup THEN duplicate_count + 1 ELSE duplicate_count
           /\ saved_count' = IF dup THEN saved_count ELSE saved_count + 1
           /\ seen_names' = IF dup THEN seen_names ELSE seen_names \cup {filename}
           /\ zip_entries' = Append(zip_entries,
                                    ZipEntry(ImagesDir \o filename, img_data.image_bytes, <<>>))
           /\ manifest_rows' = IF dup THEN manifest_rows ELSE Append(manifest_rows, ManifestRow(img_data, filename, action))
    /\ zi' = zi + 1
    /\ UNCHANGED <<pc, files_data, image_column, name_column, fi, all_images,
                   result, letter, index, unit_vars, service_vars>>

\* a plausible slip: the file name is never added to seen_names
PackImageNoAdd ==
    /\ pc = "pack"
    /\ zi <= Len(all_images)
    /\ LET img_data == all_images[zi]
           filename == Filename(img_data)
           dup == filename \in seen_names
           action == IF dup THEN "Duplicate" ELSE "Saved"
       IN  /\ duplicate_count' = IF dup THEN duplicate_count + 1 ELSE duplicate_count
           /\ saved_count' = IF dup THEN saved_count ELSE saved_count + 1
           /\ seen_names' = seen_names
           /\ zip_entries' = Append(zip_entries,
                                    ZipEntry(ImagesDir \o filename, img_data.image_bytes, <<>>))
           /\ manifest_rows' = Append(manifest_rows, ManifestRow(img_data, filename, action))
    /\ zi' = zi + 1
    /\ UNCHANGED <<pc, files_data, image_column, name_column, fi, all_images,
                   result, letter, index, unit_vars, service_vars>>

\* a plausible slip: the file names seen are kept sheet by sheet
PackImageKeyPerSheet ==
    /\ pc = "pack"
    /\ zi <= Len(all_images)
    /\ LET img_data == all_images[zi]
           filename == Filename(img_data)
           dup == (img_data.sheet \o <<47>> \o filename) \in seen_names
           action == IF dup THEN "Duplicate" ELSE "Saved"
       IN  /\ duplicate_count' = IF dup THEN duplicate_count + 1 ELSE duplicate_count
           /\ saved_count' = IF dup THEN saved_count ELSE saved_count + 1
           /\ seen_names' = IF dup THEN seen_names
                            ELSE seen_names \cup {img_data.sheet \o <<47>> \o filename}
           /\ zip_entries' = Append(zip_entries,
                                    ZipEntry(ImagesDir \o filename, img_data.image_bytes, <<>>))
           /\ manifest_rows' = Append(manifest_rows, ManifestRow(img_data, filename, action))
    /\ zi' = zi + 1
    /\ UNCHANGED <<pc, files_data, image_column, name_column, fi, all_images,
                   result, letter, index, unit_vars, service_vars>>

\* a plausible slip: a duplicate is counted as saved as well
PackImageSavedAlways ==
    /\ pc = "pack"
    /\ zi <= Len(all_images)
    /\ LET img_data == all_images[zi]
           filename == Filename(img_data)
           dup == filename \in seen_names
           action == IF dup THEN "Duplicate" ELSE "Saved"
       IN  /\ duplicate_count' = IF dup THEN duplicate_count + 1 ELSE duplicate_count
           /\ saved_count' = saved_count + 1
           /\ seen_names' = IF dup THEN seen_names ELSE seen_names \cup {filename}
           /\ zip_entries' = Append(zip_entries,
                                    ZipEntry(ImagesDir \o filename, img_data.image_bytes, <<>>))
           /\ manifest_rows' = Append(manifest_rows, ManifestRow(img_data, filename, action))
    /\ zi' = zi + 1
    /\ UNCHANGED <<pc, files_data, image_column, name_column, fi, all_images,
                   result, letter, index, unit_vars, service_vars>>

\* one turn of "for img_data in images"
PackImage ==
    /\ pc = "pack"
    /\ zi <= Len(all_images)
    /\ LET img_data == all_images[zi]
           filename == Filename(img_data)
           dup == filename \in seen_names
           action == IF dup THEN "Duplicate" ELSE "Saved"
       IN  /\ duplicate_count' = IF dup THEN duplicate_count + 1 ELSE duplicate_count
           /\ saved_count' = IF dup THEN saved_count ELSE saved_count + 1
           /\ seen_names' = IF dup THEN seen_names ELSE seen_names \cup {filename}
           /\ zip_entries' = Append(zip_entries,
                                    ZipEntry(ImagesDir \o filename, img_data.image_bytes, <<>>))
           /\ manifest_rows' = Append(manifest_rows, ManifestRow(img_data, filename, action))
    /\ zi' = zi + 1
    /\ UNCHANGED <<pc, files_data, image_column, name_column, fi, all_images,
                   result, letter, index, unit_vars, service_vars>>

\* csv.writer: a row of report.csv, every field as text
CsvRow(r) == <<r.sheet, IntToStr(r.row), r.part_name, r.filename, r.action>>

\* the header row and writer.writerows(manifest_rows)
ReportCsv(rows) == <<ReportHeader>> \o [i \in 1..Len(rows) |-> CsvRow(rows[i])]

\* a plausible slip: report.csv is put in front of the image entries
WriteReportFirst ==
    /\ pc = "pack"
    /\ zi > Len(all_images)
    /\ zip_entries' = <<ZipEntry(ReportName, <<>>, ReportCsv(manifest_rows))>> \o zip_entries
    /\ result' = [kind |-> "ok", error |-> "", zip |-> zip_entries',
                  total |-> Len(all_images), saved |-> saved_count,
                  duplicates |-> duplicate_count]
    /\ pc' = "done"
    /\ UNCHANGED <<files_data, image_column, name_column, fi, all_images, zi,
                   seen_names, saved_count, duplicate_count, manifest_rows,
                   letter, index, unit_vars, service_vars>>

\* after the loop: report.csv is written, the archive closed, and
\* process_excel_files returns (zip_buffer, len(all_images), saved, duplicates)
WriteReport ==
    /\ pc = "pack"
    /\ zi > Len(all_images)
    /\ zip_entries' = Append(zip_entries, ZipEntry(ReportName, <<>>, ReportCsv(manifest_rows)))
    /\ result' = [kind |-> "ok", error |-> "", zip |-> zip_entries',
                  total |-> Len(all_images), saved |-> saved_count,
                  duplicates |-> duplicate_count]
    /\ pc' = "done"
    /\ UNCHANGED <<files_data, image_column, name_column, fi, all_images, zi,
                   seen_names, saved_count, duplicate_count, manifest_rows,
                   letter, index, unit_vars, service_vars>>

Next ==
    \/ ScanFile
    \/ RaiseNoImagesFound
    \/ EnterCreateImagesZip
    \/ PackImage
    \/ WriteReport

Spec == Init /\ [][Next]_vars

(***************************************************************************)
(* column_letter_to_index called on its own.                               *)
(***************************************************************************)
\* every code point a column identifier of the model is made of: A-Z, a, z,
\* blank, "1", "-" and e-acute
CodecChars == (65..90) \cup {97, 122, 32, 49, 45, 233}

\* the code points of the identifiers longer than two characters
LongChars == {65, 90, 98, 32, 49}

LetterInputs ==
    SeqsUpTo(CodecChars, 2) \cup UNION {[1..k -> LongChars] : k \in 3..MaxLetterLen}

InitCodec ==
    /\ letter \in LetterInputs
    /\ index = [ok |-> FALSE, value |-> 0]
    /\ ServiceIdle
    /\ pc = "codec_call"
    /\ files_data = <<>>
    /\ image_column = <<>>
    /\ name_column = <<>>
    /\ fi = 1
    /\ all_images = <<>>
    /\ zi = 0
    /\ seen_names = {}
    /\ saved_count = 0
    /\ duplicate_count = 0
    /\ manifest_rows = <<>>
    /\ zip_entries = <<>>
    /\ result = NoResult
    /\ label = <<>>
    /\ stem = <<>>
    /\ content = <<>>
    /\ extension = <<>>

Convert ==
    /\ pc = "codec_call"
    /\ index' = ColumnLetterToIndex(letter)
    /\ pc' = "codec_return"
    /\ UNCHANGED <<files_data, image_column, name_column, fi, all_images, zi,
                   seen_names, saved_count, duplicate_count, manifest_rows,
                   zip_entries, result, letter, unit_vars, service_vars>>

NextCodec == Convert

SpecCodec == InitCodec /\ [][NextCodec]_vars

(***************************************************************************)
(* Properties of column_letter_to_index (checked under SpecCodec).         *)
(***************************************************************************)
IsAsciiLetter(c) == c \in (65..90) \cup (97..122)

\* the identifiers the specification admits: [A-Za-z]{1,2}
MatchesPattern(l) == Len(l) \in 1..2 /\ \A i \in 1..Len(l) : IsAsciiLetter(l[i])

\* the base-26 numeral with digits 1..26, minus one, of one or two upper-case letters
NumeralIndex(u) ==
    IF Len(u) = 1 THEN (u[1] - 65 + 1) - 1
    ELSE (u[1] - 65 + 1) * 26 + (u[2] - 65 + 1) - 1

\* the identifier of an index in 0..701
LettersOfIndex(n) ==
    IF n < 26 THEN <<65 + n>>
    ELSE <<65 + ((n - 26) \div 26), 65 + ((n - 26) % 26)>>

\* C9: for an identifier of one or two ASCII letters, in either case,
\* column_letter_to_index returns the base-26 numeral (digits 1..26) minus
\* one of its upper-cased form: A is 0, Z is 25, AA is 26, AZ is 51; the
\* index lies in 0..701, the identifier is recovered from the index (no two
\* upper-cased identifiers share an index) and every index of 0..701 is the
\* index of its identifier.
Thm_C9 ==
    (pc = "codec_return" /\ MatchesPattern(letter)) =>
        /\ index.ok
        /\ index.value = NumeralIndex(Upper(letter))
        /\ index.value \in 0..701
        /\ LettersOfIndex(index.value) = Upper(letter)
        /\ (Upper(letter) = <<65>> => index.value = 0)
        /\ (Upper(letter) = <<90>> => index.value = 25)
        /\ (Upper(letter) = <<65, 65>> => index.value = 26)
        /\ (Upper(letter) = <<65, 90>> => index.value = 51)
        /\ (letter = <<90, 90>> =>
               \A n \in 0..701 : ColumnLetterToIndex(LettersOfIndex(n)).value = n)

\* "az" was converted to 51
Wit_C9 == pc = "codec_return" /\ letter = <<97, 122>> /\ index.ok /\ index.value = 51

\* C10: column_letter_to_index fails for every input that does not match
\* [A-Za-z]{1,2} and returns an index only for inputs that match.
Orig_C10 == pc = "codec_return" => (index.ok <=> MatchesPattern(letter))

(***************************************************************************)
(* Properties of process_excel_files and create_images_zip (under Spec).   *)
(***************************************************************************)
Terminated == pc \in {"done", "error"}

ColumnsValid == ColumnLetterToIndex(image_column).ok /\ ColumnLetterToIndex(name_column).ok

\* the images of a sheet anchored in column ic, in the order they are anchored
MatchingImages(sheet, ic) == SelectSeq(sheet.images, LAMBDA im : im.has_from /\ im.col = ic)

RECURSIVE ConcatAll(_)
ConcatAll(ss) == IF ss = <<>> THEN <<>> ELSE Head(ss) \o ConcatAll(Tail(ss))

\* the image sequence of one workbook for the chosen columns: sheets in
\* declared order, images in anchored order; nothing for a corrupt workbook
\* or for malformed column letters
WorkbookSequence(wb) ==
    IF ~wb.ok \/ ~ColumnsValid THEN <<>>
    ELSE LET ic == ColumnLetterToIndex(image_column).value
             nc == ColumnLetterToIndex(name_column).value
         IN  ConcatAll([k \in 1..Len(wb.sheets) |->
                 LET m == MatchingImages(wb.sheets[k], ic)
                 IN  [i \in 1..Len(m) |-> MakeImageData(wb.sheets[k], m[i], nc)]])

\* the concatenation of the sequences of the first n workbooks supplied
CombinedSequence(n) == ConcatAll([k \in 1..n |-> WorkbookSequence(files_data[k])])

\* the entries of an archive that lie under images/
ImageEntries(zip) == SelectSeq(zip, LAMBDA e : HasPrefix(e.name, ImagesDir))

\* the action create_images_zip is to give the image at position i
ExpectedAction(i) ==
    IF \E j \in 1..(i - 1) : Filename(all_images[j]) = Filename(all_images[i])
    THEN "Duplicate" ELSE "Saved"

\* C1: a successful run returns saved + duplicates = totalFound, and
\* totalFound is the length of the combined image sequence.
Thm_C1 ==
    pc = "done" =>
        /\ result.kind = "ok"
        /\ result.saved + result.duplicates = result.total
        /\ result.total = Len(CombinedSequence(Len(files_data)))

\* a run succeeded with two saved images and one duplicate
Wit_C1 == pc = "done" /\ result.saved = 2 /\ result.duplicates = 1 /\ result.total = 3

\* C2: in a successful run report.csv is the header row followed by one row
\* per image of the combined sequence, the i-th row giving the sheet, the
\* 1-based row, the raw label, the computed file name and the action of the
\* i-th image.
Thm_C2 ==
    pc = "done" =>
        LET csv == result.zip[Len(result.zip)].csv IN
        /\ result.zip[Len(result.zip)].name = ReportName
        /\ Len(csv) = result.total + 1
        /\ csv[1] = ReportHeader
        /\ \A i \in 1..Len(all_images) :
              csv[i + 1] = <<all_images[i].sheet, IntToStr(all_images[i].row),
                             all_images[i].name_raw, Filename(all_images[i]),
                             ExpectedAction(i)>>

\* a report of three rows whose second image is a duplicate of the first and
\* whose third is not
Wit_C2 ==
    /\ pc = "done"
    /\ Len(result.zip[Len(result.zip)].csv) = 4
    /\ result.zip[Len(result.zip)].csv[3][5] = "Duplicate"
    /\ result.zip[Len(result.zip)].csv[4][5] = "Saved"
    /\ all_images[1].sheet # all_images[3].sheet

\* C3: in create_images_zip the image at position i is marked Duplicate
\* exactly when an image at an earlier position has the same file name
\* "{stem}.{ext}", and Saved otherwise; labels X1, (empty), X1 on images of
\* one format give Saved, Saved, Duplicate.
Thm_C3 ==
    pc \in {"pack", "done"} =>
        /\ \A i \in 1..Len(manifest_rows) : manifest_rows[i].action = ExpectedAction(i)
        /\ (/\ Len(manifest_rows) = 3
            /\ all_images[1].name_raw = <<88, 49>>
            /\ all_images[2].name_raw = StrImageUnderscore \o <<50>>
            /\ all_images[3].name_raw = <<88, 49>>
            /\ \A i \in 1..3 : ImageFormat(all_images[i].image_bytes) = "PNG")
           => [i \in 1..3 |-> manifest_rows[i].action] = <<"Saved", "Saved", "Duplicate">>

\* rows 2, 3, 2 of a first sheet, labels X1, none, X1: Saved, Saved, Duplicate
Wit_C3 ==
    /\ pc = "done"
    /\ Len(manifest_rows) = 3
    /\ [i \in 1..3 |-> all_images[i].row] = <<2, 3, 2>>
    /\ all_images[1].name_raw = <<88, 49>>
    /\ all_images[3].name_raw = <<88, 49>>
    /\ all_images[1].image_bytes # all_images[3].image_bytes
    /\ [i \in 1..3 |-> manifest_rows[i].action] = <<"Saved", "Saved", "Duplicate">>

\* C4: the finished archive holds exactly one entry per computed file name,
\* with the bytes of the last image of that name, so that the number of
\* image entries equals savedCount.
Orig_C4 ==
    pc = "done" =>
        LET ies == ImageEntries(result.zip) IN
        /\ Len(ies) = result.saved
        /\ \A i \in 1..Len(all_images) :
              Cardinality({k \in 1..Len(ies) :
                              ies[k].name = ImagesDir \o Filename(all_images[i])}) = 1

\* C5: with well-formed column letters, a workbook whose scan fails is
\* skipped and the others are still scanned: after k workbooks the combined
\* sequence has as many images as the loadable ones among them hold in the
\* image column, and a run with at least one such image succeeds with
\* totalFound equal to their number.
MatchingCount(wb) ==
    IF ~wb.ok THEN 0
    ELSE SumLen([k \in 1..Len(wb.sheets) |->
                    MatchingImages(wb.sheets[k], ColumnLetterToIndex(image_column).value)])

RECURSIVE MatchingTotal(_)
MatchingTotal(n) == IF n = 0 THEN 0 ELSE MatchingTotal(n - 1) + MatchingCount(files_data[n])

Thm_C5 ==
    ColumnsValid =>
        /\ pc = "scan" => Len(all_images) = MatchingTotal(fi - 1)
        /\ (Terminated /\ MatchingTotal(Len(files_data)) >= 1) =>
               /\ result.kind = "ok"
               /\ result.total = MatchingTotal(Len(files_data))

\* a corrupt workbook followed by a workbook with two images: totalFound = 2
Wit_C5 ==
    /\ pc = "done"
    /\ Len(files_data) = 2
    /\ ~files_data[1].ok
    /\ files_data[2].ok
    /\ MatchingCount(files_data[2]) = 2
    /\ result.kind = "ok"
    /\ result.total = 2

\* C6: process_excel_files fails with NoImagesFound exactly when the
\* combined sequence is empty once every workbook has been attempted, and
\* never before the last workbook has been attempted.
Thm_C6 ==
    /\ result.error = "NoImagesFound" =>
           /\ fi = Len(files_data) + 1
           /\ all_images = <<>>
           /\ CombinedSequence(Len(files_data)) = <<>>
    /\ (Terminated /\ CombinedSequence(Len(files_data)) = <<>>) =>
           (result.kind = "error" /\ result.error = "NoImagesFound")
    /\ ~Terminated => result.kind = "none"

\* a corrupt workbook and a loadable one with an image outside the image
\* column: NoImagesFound after both were attempted
Wit_C6 ==
    /\ pc = "error"
    /\ result.error = "NoImagesFound"
    /\ ColumnsValid
    /\ Len(files_data) = 2
    /\ fi = 3
    /\ ~files_data[1].ok
    /\ files_data[2].ok
    /\ CountImages(files_data[2]) >= 1

\* C7: a run ends either with an error and no archive, or with a success
\* whose archive holds at least one image entry and report.csv and whose
\* totalFound is at least 1.
Thm_C7 ==
    Terminated =>
        \/ /\ pc = "error"
           /\ result.kind = "error"
           /\ result.error # ""
           /\ result.zip = <<>>
        \/ /\ pc = "done"
           /\ result.kind = "ok"
           /\ result.total >= 1
           /\ Len(ImageEntries(result.zip)) >= 1
           /\ \E k \in 1..Len(result.zip) : result.zip[k].name = ReportName

\* a run over a workbook without images and a workbook with one image in
\* the image column succeeded with one image entry and the report
Wit_C7 ==
    /\ pc = "done"
    /\ Len(files_data) = 2
    /\ CountImages(files_data[1]) = 0
    /\ result.total = 1
    /\ Len(result.zip) = 2

\* C8: the combined sequence is the concatenation, in the order supplied, of
\* the image sequences of the workbooks scanned so far (sheets in declared
\* order, images in anchored order), and does not change afterwards.
Thm_C8 ==
    /\ pc = "scan" => all_images = CombinedSequence(fi - 1)
    /\ pc \in {"pack", "done"} => all_images = CombinedSequence(Len(files_data))

\* two workbooks, the first with two sheets, gave three different images in
\* the order supplied
Wit_C8 ==
    /\ pc = "done"
    /\ Len(files_data) = 2
    /\ files_data[1].ok /\ Len(files_data[1].sheets) = 2
    /\ files_data[2].ok
    /\ Len(all_images) = 3
    /\ all_images[1].sheet # all_images[2].sheet
    /\ all_images[1] # all_images[3]
    /\ all_images[2] # all_images[3]
    /\ all_images[1] = WorkbookSequence(files_data[1])[1]
    /\ all_images[3] = WorkbookSequence(files_data[2])[1]

(***************************************************************************)
(* process_excel_files called with the same letters for both columns.      *)
(***************************************************************************)
InitEqualColumns ==
    /\ files_data \in FileLists(MaxFiles, MaxImages)
    /\ image_column \in ImageColumnInputs
    /\ name_column = image_column
    /\ pc = "scan"
    /\ fi = 1
    /\ all_images = <<>>
    /\ zi = 0
    /\ seen_names = {}
    /\ saved_count = 0
    /\ duplicate_count = 0
    /\ manifest_rows = <<>>
    /\ zip_entries = <<>>
    /\ result = NoResult
    /\ letter = <<>>
    /\ index = [ok |-> FALSE, value |-> 0]
    /\ ServiceIdle
    /\ label = <<>>
    /\ stem = <<>>
    /\ content = <<>>
    /\ extension = <<>>

SpecEqualColumns == InitEqualColumns /\ [][Next]_vars

\* C11: with malformed column letters the run ends with the InvalidColumn
\* error itself and no workbook has been attempted: the failure is neither
\* a per-file skip nor NoImagesFound.
Orig_C11 ==
    (Terminated /\ ~ColumnsValid /\ files_data # <<>>) =>
        /\ result.kind = "error"
        /\ result.error = "InvalidColumn"
        /\ fi = 1

\* C12: process_excel_files called with the same letters for the image and
\* the name column rejects the call before any workbook is parsed.
Orig_C12 ==
    (image_column = name_column) =>
        /\ fi = 1
        /\ pc \notin {"pack", "done"}
        /\ result.kind # "ok"

(***************************************************************************)
(* extract_images_from_excel called on one workbook.                       *)
(***************************************************************************)
InitScanner ==
    /\ files_data \in {<<wb>> : wb \in Workbooks(MaxImages)}
    /\ image_column \in ImageColumnInputs
    /\ name_column \in NameColumnInputs
    /\ pc = "scanner_call"
    /\ fi = 1
    /\ all_images = <<>>
    /\ zi = 0
    /\ seen_names = {}
    /\ saved_count = 0
    /\ duplicate_count = 0
    /\ manifest_rows = <<>>
    /\ zip_entries = <<>>
    /\ result = NoResult
    /\ letter = <<>>
    /\ index = [ok |-> FALSE, value |-> 0]
    /\ ServiceIdle
    /\ label = <<>>
    /\ stem = <<>>
    /\ content = <<>>
    /\ extension = <<>>

\* the call returns its list (kept in all_images) or raises the ValueError
\* "Failed to process Excel file" (CorruptWorkbook)
ScanWorkbook ==
    /\ pc = "scanner_call"
    /\ LET r == ExtractImagesFromExcel(files_data[1], image_column, name_column)
       IN  IF r.ok
           THEN /\ all_images' = r.images
                /\ pc' = "scanner_return"
                /\ UNCHANGED result
           ELSE /\ pc' = "scanner_error"
                /\ result' = [NoResult EXCEPT !.kind = "error", !.error = "CorruptWorkbook"]
                /\ UNCHANGED all_images
    /\ UNCHANGED <<files_data, image_column, name_column, fi, zi, seen_names,
                   saved_count, duplicate_count, manifest_rows, zip_entries,
                   letter, index, unit_vars, service_vars>>

NextScanner == ScanWorkbook

SpecScanner == InitScanner /\ [][NextScanner]_vars

\* the sheet of the scanned workbook an ImageData names
SheetNamed(n) ==
    LET wb == files_data[1]
    IN  wb.sheets[CHOOSE k \in 1..Len(wb.sheets) : wb.sheets[k].name = n]

\* the label cell of an ImageData: same row, name column
LabelCell(img_data) ==
    CellValue(SheetNamed(img_data.sheet), img_data.row,
              ColumnLetterToIndex(name_column).value + 1)

\* sheet, 1-based row and content of the images anchored in column ic, sheet
\* by sheet, each once
AnchoredIn(wb, ic) ==
    ConcatAll([k \in 1..Len(wb.sheets) |->
        LET m == MatchingImages(wb.sheets[k], ic)
        IN  [i \in 1..Len(m) |->
                [sheet |-> wb.sheets[k].name, row |-> m[i].row + 1, data |-> m[i].data]]])

\* C13: extract_images_from_excel returns exactly the images anchored in the
\* image column, each once and in order, whatever else the sheets hold; an
\* image anchored elsewhere makes no failure.
Thm_C13 ==
    /\ pc = "scanner_return" =>
           [i \in 1..Len(all_images) |->
               [sheet |-> all_images[i].sheet, row |-> all_images[i].row,
                data |-> all_images[i].image_bytes]]
           = AnchoredIn(files_data[1], ColumnLetterToIndex(image_column).value)
    /\ (pc # "scanner_call" /\ ColumnsValid /\ files_data[1].ok) => pc = "scanner_return"

\* a sheet with an image in column B, one in column C and one with an
\* absolute anchor gave the image of column B alone
Wit_C13 ==
    /\ pc = "scanner_return"
    /\ image_column = <<66>>
    /\ Len(files_data[1].sheets) = 1
    /\ Len(files_data[1].sheets[1].images) = 3
    /\ \E i \in 1..3 : files_data[1].sheets[1].images[i].col = 2
    /\ \E i \in 1..3 : ~files_data[1].sheets[1].images[i].has_from
    /\ Len(all_images) = 1
    /\ all_images[1].image_bytes = JpgA

\* C14: a matching image whose label cell is empty gets the label
\* image_<row> with the 1-based row recorded for it.
Orig_C14 ==
    pc = "scanner_return" =>
        \A i \in 1..Len(all_images) :
            LabelCell(all_images[i]).t = "none" =>
                all_images[i].name_raw = StrImageUnderscore \o IntToStr(all_images[i].row)

\* a cell with a value: a number, or a text that is not empty
NonEmptyCell(v) == v.t = "int" \/ (v.t = "str" /\ v.s # <<>>)

\* C15: the recorded row is the zero-based anchor row plus one, and the raw
\* label is the text form of the label cell of that row whenever the cell is
\* not empty, a numeric 0 included.
Orig_C15 ==
    pc = "scanner_return" =>
        \A i \in 1..Len(all_images) :
            /\ \E im \in {SheetNamed(all_images[i].sheet).images[k] :
                             k \in 1..Len(SheetNamed(all_images[i].sheet).images)} :
                  im.has_from /\ all_images[i].row = im.row + 1
            /\ NonEmptyCell(LabelCell(all_images[i])) =>
                  all_images[i].name_raw = PyStr(LabelCell(all_images[i]))

\* C19: with well-formed column letters extract_images_from_excel fails
\* exactly when the workbook cannot be loaded; a loadable workbook without
\* an image in the image column gives an empty list.
Thm_C19 ==
    (pc # "scanner_call" /\ ColumnsValid) =>
        /\ pc = "scanner_error" <=> ~files_data[1].ok
        /\ pc = "scanner_error" => (result.error = "CorruptWorkbook" /\ all_images = <<>>)
        /\ (files_data[1].ok /\ MatchingCount(files_data[1]) = 0) =>
               (pc = "scanner_return" /\ all_images = <<>>)

\* a loadable workbook whose images all lie outside the image column gave
\* an empty list
Wit_C19 ==
    /\ pc = "scanner_return"
    /\ ColumnsValid
    /\ files_data[1].ok
    /\ CountImages(files_data[1]) = 2
    /\ all_images = <<>>

(***************************************************************************)
(* normalize_filename called on its own: label is the argument, stem the   *)
(* returned value.                                                         *)
(***************************************************************************)
\* the characters of a label: a, space, tab, /, :, #
LabelChars == {97, 32, 9, 47, 58, 35}

\* "Part #1/2"
PartLabel == <<80, 97, 114, 116, 32, 35, 49, 47, 50>>

\* k times the letter x
Fill(k) == [i \in 1..k |-> 120]

\* short labels of every shape, the label "Part #1/2", and labels whose
\* length lies around the limit of 50
LabelInputs ==
    SeqsUpTo(LabelChars, MaxLabelLen)
    \cup {PartLabel}
    \cup {p \o Fill(k) \o q : p \in SeqsUpTo(LabelChars, 1),
                              q \in SeqsUpTo(LabelChars, 2),
                              k \in (StemLimit - MaxPad)..(StemLimit + MaxPad)}

InitNormalizer ==
    /\ label \in LabelInputs
    /\ pc = "normalize_call"
    /\ stem = <<>>
    /\ files_data = <<>>
    /\ image_column = <<>>
    /\ name_column = <<>>
    /\ fi = 0
    /\ all_images = <<>>
    /\ zi = 0
    /\ seen_names = {}
    /\ saved_count = 0
    /\ duplicate_count = 0
    /\ manifest_rows = <<>>
    /\ zip_entries = <<>>
    /\ result = NoResult
    /\ letter = <<>>
    /\ index = [ok |-> FALSE, value |-> 0]
    /\ ServiceIdle
    /\ content = <<>>
    /\ extension = <<>>

\* base_name = normalize_filename(name_raw)
Normalize ==
    /\ pc = "normalize_call"
    /\ stem' = NormalizeFilename(label)
    /\ pc' = "normalize_return"
    /\ UNCHANGED <<files_data, image_column, name_column, fi, all_images, zi,
                   seen_names, saved_count, duplicate_count, manifest_rows,
                   zip_entries, result, letter, index, label, content, extension,
                   service_vars>>

NextNormalizer == Normalize

SpecNormalizer == InitNormalizer /\ [][NextNormalizer]_vars

\* the label has no character besides whitespace (the empty label included)
WhitespaceOnly(l) == \A i \in 1..Len(l) : IsSpace(l[i])

\* "Part_#1_2", "Part_#12"
PartUnderscored == <<80, 97, 114, 116, 95, 35, 49, 95, 50>>
PartRemoved == <<80, 97, 114, 116, 95, 35, 49, 50>>

\* C16, as stated: normalize_filename turns "Part #1/2" into "Part_#1_2",
\* and an empty or whitespace-only label into "image".
Orig_C16 ==
    pc = "normalize_return" =>
        /\ label = PartLabel => stem = PartUnderscored
        /\ WhitespaceOnly(label) => stem = StrImage

\* C16, amended: normalize_filename turns "Part #1/2" into "Part_#12" (the
\* slash is removed, the space becomes the one underscore), and an empty or
\* whitespace-only label into "image".
Thm_C16 ==
    pc = "normalize_return" =>
        /\ label = PartLabel => stem = PartRemoved
        /\ WhitespaceOnly(label) => stem = StrImage

\* the label "Part #1/2" has been normalized
Wit_C16 ==
    /\ pc = "normalize_return"
    /\ label = PartLabel
    /\ stem = PartRemoved

\* the characters a stem must not hold:  < > : " / \ | ? *
UnsafeChars == {60, 62, 58, 34, 47, 92, 124, 63, 42}

\* the cleaned form of a label: trimmed, unsafe characters dropped, every
\* run of whitespace turned into one underscore
CleanedForm(l) == ReplaceSpaces(RemoveInvalid(Strip(l)))

\* C17: the stem normalize_filename returns is never empty, has at most 50
\* characters, none of them an unsafe character or whitespace; a cleaned
\* form longer than 50 characters is cut to its first 50, and an empty
\* cleaned form gives "image".
Thm_C17 ==
    pc = "normalize_return" =>
        /\ stem # <<>>
        /\ Len(stem) <= 50
        /\ \A i \in 1..Len(stem) : stem[i] \notin UnsafeChars /\ ~IsSpace(stem[i])
        /\ Len(CleanedForm(label)) > 50 => stem = SubSeq(CleanedForm(label), 1, 50)
        /\ CleanedForm(label) = <<>> => stem = StrImage

\* a label whose cleaned form has more than 50 characters has been cut
Wit_C17 ==
    /\ pc = "normalize_return"
    /\ Len(CleanedForm(label)) > 50
    /\ Len(stem) = 50
    /\ stem # CleanedForm(label)

(***************************************************************************)
(* detect_image_extension called on its own: content is the argument,      *)
(* extension the returned value.                                           *)
(***************************************************************************)
\* what a content starts with: the signatures of the six listed formats,
\* the signature of a format outside the list (PPM), signatures cut short
\* and nothing
ContentHeads ==
    {<<137, 80, 78, 71>>, <<255, 216, 255>>, <<71, 73, 70, 56>>, <<66, 77>>,
     <<73, 73, 42, 0>>, <<82, 73, 70, 70>>, <<80, 54>>,
     <<137, 80>>, <<71, 73, 70>>, <<>>}

ContentInputs ==
    {h \o t : h \in ContentHeads, t \in SeqsUpTo({0, 77, 255}, MaxContentTail)}

InitSniffer ==
    /\ content \in ContentInputs
    /\ pc = "detect_call"
    /\ extension = <<>>
    /\ files_data = <<>>
    /\ image_column = <<>>
    /\ name_column = <<>>
    /\ fi = 0
    /\ all_images = <<>>
    /\ zi = 0
    /\ seen_names = {}
    /\ saved_count = 0
    /\ duplicate_count = 0
    /\ manifest_rows = <<>>
    /\ zip_entries = <<>>
    /\ result = NoResult
    /\ letter = <<>>
    /\ index = [ok |-> FALSE, value |-> 0]
    /\ ServiceIdle
    /\ label = <<>>
    /\ stem = <<>>

\* extension = detect_image_extension(image_bytes)
Detect ==
    /\ pc = "detect_call"
    /\ extension' = DetectImageExtension(content)
    /\ pc' = "detect_return"
    /\ UNCHANGED <<files_data, image_column, name_column, fi, all_images, zi,
                   seen_names, saved_count, duplicate_count, manifest_rows,
                   zip_entries, result, letter, index, label, stem, content,
                   service_vars>>

NextSniffer == Detect

SpecSniffer == InitSniffer /\ [][NextSniffer]_vars

\* the extension the detected format stands for
ExpectedExtension(f) ==
    CASE f = "JPEG" -> ExtJpg
      [] f = "PNG" -> ExtPng
      [] f = "GIF" -> ExtGif
      [] f = "BMP" -> ExtBmp
      [] f = "TIFF" -> ExtTif
      [] f = "WEBP" -> ExtWebp
      [] OTHER -> ExtPng

\* C18: detect_image_extension always returns one of jpg, png, gif, bmp,
\* tif, webp: the one of the detected format when it is JPEG, PNG, GIF,
\* BMP, TIFF or WEBP, and png for any other format and for content that
\* cannot be read as an image; it never fails.
Thm_C18 ==
    pc = "detect_return" =>
        /\ extension \in {ExtJpg, ExtPng, ExtGif, ExtBmp, ExtTif, ExtWebp}
        /\ extension = ExpectedExtension(ImageFormat(content))
        /\ ImageFormat(content) \notin {"JPEG", "PNG", "GIF", "BMP", "TIFF", "WEBP"}
               => extension = ExtPng

\* a content of a format outside the list got png
Wit_C18 ==
    /\ pc = "detect_return"
    /\ ImageFormat(content) = "PPM"
    /\ extension = ExtPng

(***************************************************************************)
(* Both entry points of the packaging: process_excel_files, and            *)
(* create_images_zip called on its own with a list of ImageData.           *)
(***************************************************************************)
\* the ImageData a caller may hand over
ImageDataInputs ==
    [name_raw : {<<88, 49>>, <<88, 58, 49>>, <<>>},
     image_bytes : {PngA, JpgA},
     sheet : {SheetName(1)},
     row : {2}]

InitDirect ==
    /\ all_images \in SeqsUpTo(ImageDataInputs, MaxImages)
    /\ pc = "zip_call"
    /\ files_data = <<>>
    /\ image_column = <<>>
    /\ name_column = <<>>
    /\ fi = 0
    /\ zi = 0
    /\ seen_names = {}
    /\ saved_count = 0
    /\ duplicate_count = 0
    /\ manifest_rows = <<>>
    /\ zip_entries = <<>>
    /\ result = NoResult
    /\ letter = <<>>
    /\ index = [ok |-> FALSE, value |-> 0]
    /\ ServiceIdle
    /\ label = <<>>
    /\ stem = <<>>
    /\ content = <<>>
    /\ extension = <<>>

\* process_excel_files called with at most one file
InitOneFile ==
    /\ files_data \in FileLists(1, MaxImages)
    /\ image_column \in ImageColumnInputs
    /\ name_column \in NameColumnInputs
    /\ pc = "scan"
    /\ fi = 1
    /\ all_images = <<>>
    /\ zi = 0
    /\ seen_names = {}
    /\ saved_count = 0
    /\ duplicate_count = 0
    /\ manifest_rows = <<>>
    /\ zip_entries = <<>>
    /\ result = NoResult
    /\ letter = <<>>
    /\ index = [ok |-> FALSE, value |-> 0]
    /\ ServiceIdle
    /\ label = <<>>
    /\ stem = <<>>
    /\ content = <<>>
    /\ extension = <<>>

InitEntryPoints == InitOneFile \/ InitDirect

NextEntryPoints == Next \/ CallCreateImagesZip

SpecEntryPoints == InitEntryPoints /\ [][NextEntryPoints]_vars

\* create_images_zip was called on its own (fi counts from 1 in
\* process_excel_files)
DirectCall == fi = 0

\* C20: create_images_zip fails with "No images to process" when handed an
\* empty list, and then no archive is produced; the failure is reachable
\* only by calling it directly, never through process_excel_files.
Thm_C20 ==
    /\ (DirectCall /\ pc # "zip_call" /\ all_images = <<>>) =>
           /\ pc = "error"
           /\ result.kind = "error"
           /\ result.error = "EmptyInput"
           /\ zip_entries = <<>>
           /\ result.zip = <<>>
    /\ (DirectCall /\ pc # "zip_call" /\ all_images # <<>>) =>
           result.error # "EmptyInput"
    /\ ~DirectCall => result.error # "EmptyInput"

\* the direct call with an empty list has failed
Wit_C20 ==
    /\ DirectCall
    /\ pc = "error"
    /\ all_images = <<>>
    /\ result.error = "EmptyInput"

(***************************************************************************)
(* process_excel_files run again on the same arguments.  Every name the    *)
(* functions of excel_processor.py write is a local of the call, so a new  *)
(* call starts from "all_images = []" whatever ran before.                 *)
(***************************************************************************)
\* a plausible slip: all_images lives on across calls
RerunSharedList ==
    /\ pc \in {"done", "error"}
    /\ Len(earlier) < MaxRuns - 1
    /\ earlier' = Append(earlier, result)
    /\ pc' = "scan"
    /\ fi' = 1
    /\ all_images' = all_images
    /\ zi' = 0
    /\ seen_names' = {}
    /\ saved_count' = 0
    /\ duplicate_count' = 0
    /\ manifest_rows' = <<>>
    /\ zip_entries' = <<>>
    /\ result' = NoResult
    /\ UNCHANGED <<files_data, image_column, name_column, letter, index, unit_vars,
                   users, now, requests, procs, response, observed>>

\* the call has returned or raised; process_excel_files is called once more
\* with the same files_data, image_column and name_column
Rerun ==
    /\ pc \in {"done", "error"}
    /\ Len(earlier) < MaxRuns - 1
    /\ earlier' = Append(earlier, result)
    /\ pc' = "scan"
    /\ fi' = 1
    /\ all_images' = <<>>
    /\ zi' = 0
    /\ seen_names' = {}
    /\ saved_count' = 0
    /\ duplicate_count' = 0
    /\ manifest_rows' = <<>>
    /\ zip_entries' = <<>>
    /\ result' = NoResult
    /\ UNCHANGED <<files_data, image_column, name_column, letter, index, unit_vars,
                   users, now, requests, procs, response, observed>>

NextRerun == Next \/ Rerun

SpecRerun == Init /\ [][NextRerun]_vars

\* the rows of report.csv in what a run returned; nothing when it raised
ReportOf(r) == IF r.kind = "ok" THEN r.zip[Len(r.zip)].csv ELSE <<>>

ImagesPrefix == <<105, 109, 97, 103, 101, 115, 47>>
ManifestName == <<114, 101, 112, 111, 114, 116, 46, 99, 115, 118>>

\* C22: in every produced archive each image entry's path starts with
\* images/, exactly one entry is named report.csv, it is the last entry
\* (no report.csv is in the archive while images are being written), and
\* its first row is sheet,row,part_name,filename,action.
Thm_C22 ==
    /\ pc = "pack" =>
           \A i \in 1..Len(zip_entries) :
               /\ HasPrefix(zip_entries[i].name, ImagesPrefix)
               /\ zip_entries[i].name # ManifestName
    /\ result.kind = "ok" =>
           LET z == result.zip
               n == Len(z)
           IN  /\ n = result.total + 1
               /\ \A i \in 1..(n - 1) : HasPrefix(z[i].name, ImagesPrefix)
               /\ z[n].name = ManifestName
               /\ Cardinality({i \in 1..n : z[i].name = ManifestName}) = 1
               /\ z[n].csv[1] = <<"sheet", "row", "part_name", "filename", "action">>

\* an archive with three image entries and the manifest has been produced
Wit_C22 ==
    /\ pc = "done"
    /\ result.kind = "ok"
    /\ Len(result.zip) = 4
    /\ result.zip[4].name = ManifestName

\* the images the packaging loop has processed so far
Processed == zi - 1

\* what holds after each processed image, and at the end of the loop
LoopInvariant ==
    pc \in {"pack", "done"} =>
        /\ saved_count = Cardinality(seen_names)
        /\ saved_count + duplicate_count = Processed
        /\ Len(manifest_rows) = Processed
        /\ Processed >= 1 => saved_count >= 1
        /\ pc = "done" =>
               /\ result.saved =
                      Cardinality({manifest_rows[i].filename : i \in 1..Len(manifest_rows)})
               /\ manifest_rows[1].action = "Saved"

\* C23: throughout the packaging loop, after each processed image,
\* saved_count is the size of seen_names, saved_count + duplicate_count is
\* the number of images processed and of manifest rows, saved_count >= 1,
\* and seen_names only grows; at the end saved is the number of distinct
\* file names of the manifest and the first manifest row is Saved.
Thm_C23 == []LoopInvariant /\ [][seen_names \subseteq seen_names']_vars

\* the loop has processed three images, one of them a duplicate
Wit_C23 ==
    /\ pc = "pack"
    /\ Processed = 3
    /\ saved_count = 2
    /\ duplicate_count = 1

\* the dedup key of the image at position k: its stem and its extension
DedupKey(k) ==
    <<NormalizeFilename(all_images[k].name_raw),
      DetectImageExtension(all_images[k].image_bytes)>>

\* the workbook (position in files_data) the image at position k came from
WorkbookAt(k) ==
    CHOOSE w \in 1..Len(files_data) :
        /\ Len(CombinedSequence(w)) >= k
        /\ \A v \in 1..(w - 1) : Len(CombinedSequence(v)) < k

\* C24: the dedup key is the whole file name and its scope is the whole
\* request: an image whose file name equals that of an earlier image is
\* Duplicate also when the earlier one is of another workbook or sheet or
\* has another raw label; images that differ in stem or in extension do not
\* collide, so the same label with two extensions gives Saved twice.
Thm_C24 ==
    pc = "done" =>
        \A j \in 1..Len(all_images) :
            /\ \A i \in 1..(j - 1) :
                   /\ (/\ DedupKey(i) = DedupKey(j)
                       /\ \/ WorkbookAt(i) # WorkbookAt(j)
                          \/ all_images[i].sheet # all_images[j].sheet
                          \/ all_images[i].name_raw # all_images[j].name_raw)
                      => manifest_rows[j].action = "Duplicate"
                   /\ (/\ manifest_rows[j].action = "Duplicate"
                       /\ all_images[i].name_raw = all_images[j].name_raw
                       /\ DedupKey(i)[2] # DedupKey(j)[2])
                      => \E h \in 1..(j - 1) : DedupKey(h) = DedupKey(j)
            /\ (\A i \in 1..(j - 1) : DedupKey(i) # DedupKey(j))
                   => manifest_rows[j].action = "Saved"

\* two workbooks gave one image each, with different raw labels of the same
\* stem and the same format: the second is Duplicate
Wit_C24 ==
    /\ pc = "done"
    /\ Len(files_data) = 2
    /\ Len(all_images) = 2
    /\ WorkbookAt(1) = 1
    /\ WorkbookAt(2) = 2
    /\ all_images[1].name_raw # all_images[2].name_raw
    /\ all_images[1].sheet # all_images[2].sheet
    /\ manifest_rows[2].action = "Duplicate"

(***************************************************************************)
(* process_excel_files on workbooks whose scan may raise part-way: the     *)
(* content of an embedded image cannot be copied (img.ref.getvalue()       *)
(* raises, as for want of memory).                                         *)
(***************************************************************************)
\* images of column B on rows 2 and 3, an image of column C, and an image
\* of column B whose content cannot be copied
FaultyImageSet ==
    {[row |-> 1, col |-> 1, data |-> PngA, has_from |-> TRUE, readable |-> TRUE],
     [row |-> 2, col |-> 1, data |-> PngA, has_from |-> TRUE, readable |-> TRUE],
     [row |-> 1, col |-> 2, data |-> PngA, has_from |-> TRUE, readable |-> TRUE],
     [row |-> 2, col |-> 1, data |-> PngB, has_from |-> TRUE, readable |-> FALSE]}

RECURSIVE FaultySheetLists(_, _)
FaultySheetLists(s, n) ==
    IF s = 0 THEN {<<>>}
    ELSE {<<>>} \cup UNION {{<<imgs>> \o rest : rest \in FaultySheetLists(s - 1, n - Len(imgs))} :
                               imgs \in SeqsUpTo(FaultyImageSet, n) \ {<<>>}}

FaultyWorkbooks(n) ==
    {CorruptWorkbook} \cup {MakeWorkbook(sl) : sl \in FaultySheetLists(MaxSheets, n) \ {<<>>}}

RECURSIVE FaultyFileLists(_, _)
FaultyFileLists(f, n) ==
    IF f = 0 THEN {<<>>}
    ELSE {<<>>} \cup UNION {{<<wb>> \o rest : rest \in FaultyFileLists(f - 1, n - CountImages(wb))} :
                               wb \in FaultyWorkbooks(n)}

InitFaulty ==
    /\ files_data \in FaultyFileLists(MaxFiles, MaxImages)
    /\ image_column = <<66>>
    /\ name_column = <<67>>
    /\ pc = "scan"
    /\ fi = 1
    /\ all_images = <<>>
    /\ zi = 0
    /\ seen_names = {}
    /\ saved_count = 0
    /\ duplicate_count = 0
    /\ manifest_rows = <<>>
    /\ zip_entries = <<>>
    /\ result = NoResult
    /\ letter = <<>>
    /\ index = [ok |-> FALSE, value |-> 0]
    /\ ServiceIdle
    /\ label = <<>>
    /\ stem = <<>>
    /\ content = <<>>
    /\ extension = <<>>

SpecFaulty == InitFaulty /\ [][Next]_vars

\* the images of a workbook anchored in the image column, sheet by sheet
AnchoredImages(wb) ==
    ConcatAll([k \in 1..Len(wb.sheets) |->
                  MatchingImages(wb.sheets[k], ColumnLetterToIndex(image_column).value)])

\* the scan of the workbook fails: it cannot be loaded, or the content of
\* an image of the image column cannot be copied
ScanFails(wb) ==
    \/ ~wb.ok
    \/ \E i \in 1..Len(AnchoredImages(wb)) : ~AnchoredImages(wb)[i].readable

\* the scan fails after it has collected at least one image
FailsPartWay(wb) ==
    /\ wb.ok
    /\ \E i \in 2..Len(AnchoredImages(wb)) :
           /\ ~AnchoredImages(wb)[i].readable
           /\ \A h \in 1..(i - 1) : AnchoredImages(wb)[h].readable

\* what the first n workbooks are to contribute: their sequences, nothing
\* for a workbook whose scan fails
Contribution(n) ==
    ConcatAll([k \in 1..n |-> IF ScanFails(files_data[k]) THEN <<>>
                              ELSE WorkbookSequence(files_data[k])])

\* C25: a workbook whose scan fails, part-way included, contributes no
\* image to the combined sequence: the turn of the loop that attempts it
\* leaves all_images as it was, and all_images holds the images of the
\* workbooks scanned without failure only.
Thm_C25 ==
    /\ [](pc = "scan" => all_images = Contribution(fi - 1))
    /\ [][(pc = "scan" /\ fi <= Len(files_data) /\ fi' = fi + 1 /\ ScanFails(files_data[fi]))
              => all_images' = all_images]_vars

\* the first workbook gave an image, the second failed after one image had
\* been collected: the combined sequence is that of the first workbook
Wit_C25 ==
    /\ pc = "scan"
    /\ Len(files_data) = 2
    /\ fi = 3
    /\ ~ScanFails(files_data[1])
    /\ FailsPartWay(files_data[2])
    /\ Len(all_images) = 1

(***************************************************************************)
(* auth.py and the handlers of main.py that use it.  A handler is an       *)
(* "async def" without an await between load_users and save_users, so on   *)
(* one event loop each handler runs as one step.  Dates are whole days.    *)
(***************************************************************************)
\* timedelta(days=30) of the trial and of the monthly plan
TrialDays == 30
MonthDays == 30

\* the user_data create_user builds at day t
CreateUser(t) ==
    [exists |-> TRUE, plan |-> "trial", trial_end |-> Date(t + TrialDays),
     subscription_status |-> "trial", subscription_type |-> "trial",
     expires_at |-> NoDate, is_active |-> TRUE]

\* the users table after get_or_create_user(email) at day t
GetOrCreateUser(table, email, t) ==
    IF table[email].exists THEN table ELSE [table EXCEPT ![email] = CreateUser(t)]

\* check_user_access(user) at day t, for a user that exists
CheckUserAccess(user, t) ==
    IF user.subscription_type = "lifetime"
    THEN [access |-> TRUE, reason |-> "", plan |-> "lifetime"]
    ELSE IF user.subscription_status = "active"
    THEN IF user.expires_at.set /\ t > user.expires_at.at
         THEN [access |-> FALSE, reason |-> "subscription_expired", plan |-> ""]
         ELSE [access |-> TRUE, reason |-> "", plan |-> user.subscription_type]
    ELSE IF user.plan = "trial" /\ user.trial_end.set /\ t < user.trial_end.at
    THEN [access |-> TRUE, reason |-> "", plan |-> "trial"]
    ELSE IF user.subscription_type = "per_file"
    THEN [access |-> TRUE, reason |-> "", plan |-> "per_file"]
    ELSE [access |-> FALSE, reason |-> "trial_expired", plan |-> ""]

\* the row update_subscription_status writes for the user
Subscribed(user, subscription_type, expires_at) ==
    LET u == CASE subscription_type = "lifetime" ->
                      [user EXCEPT !.subscription_status = "active",
                                   !.subscription_type = "lifetime",
                                   !.expires_at = NoDate,
                                   !.plan = "lifetime"]
               [] subscription_type = "monthly" ->
                      [user EXCEPT !.subscription_status = "active",
                                   !.subscription_type = "monthly",
                                   !.expires_at = expires_at,
                                   !.plan = "monthly"]
               [] subscription_type = "per_file" ->
                      [user EXCEPT !.subscription_status = "active",
                                   !.subscription_type = "per_file",
                                   !.expires_at = NoDate,
                                   !.plan = "per_file"]
               [] OTHER -> user
    IN  [u EXCEPT !.is_active = TRUE]

\* the users table after update_subscription_status(email, ...) at day t
UpdateSubscriptionStatus(table, email, subscription_type, expires_at, t) ==
    LET loaded == GetOrCreateUser(table, email, t)
    IN  [loaded EXCEPT ![email] = Subscribed(loaded[email], subscription_type, expires_at)]

Plans == {"lifetime", "monthly", "per_file"}

\* the free trial of the user is over at day t
TrialElapsed(user, t) == user.trial_end.set /\ t >= user.trial_end.at

InitAccess ==
    /\ pc = "serve"
    /\ files_data = <<>>
    /\ image_column = <<>>
    /\ name_column = <<>>
    /\ fi = 0
    /\ all_images = <<>>
    /\ zi = 0
    /\ seen_names = {}
    /\ saved_count = 0
    /\ duplicate_count = 0
    /\ manifest_rows = <<>>
    /\ zip_entries = <<>>
    /\ result = NoResult
    /\ letter = <<>>
    /\ index = [ok |-> FALSE, value |-> 0]
    /\ ServiceIdle
    /\ label = <<>>
    /\ stem = <<>>
    /\ content = <<>>
    /\ extension = <<>>

\* POST /api/auth/signup
Signup ==
    /\ pc = "serve"
    /\ observed.ops < MaxOps
    /\ \E email \in Emails :
           users' = GetOrCreateUser(users, email, now)
    /\ observed' = [observed EXCEPT !.ops = @ + 1]
    /\ UNCHANGED <<engine_vars, unit_vars, earlier, now, requests, procs, response>>

\* GET /payment/success with a verified payment of one of the plans
PaymentSuccess ==
    /\ pc = "serve"
    /\ observed.ops < MaxOps
    /\ \E email \in Emails, plan \in Plans :
           /\ users' = UpdateSubscriptionStatus(
                           users, email, plan,
                           IF plan = "monthly" THEN Date(now + MonthDays) ELSE NoDate, now)
           /\ observed' =
                  [observed EXCEPT
                      !.ops = @ + 1,
                      !.lifetime = IF plan = "lifetime" THEN @ \cup {email} ELSE @,
                      !.per_file[email] = [bought |-> plan = "per_file", granted |-> 0]]
    /\ UNCHANGED <<engine_vars, unit_vars, earlier, now, requests, procs, response>>

\* POST /api/process: the 402 raised inside the try block is an Exception
\* and leaves the handler as the 500 of "except Exception"; with access,
\* process_excel_files is called and returns (200) or raises (500)
ProcessFiles ==
    /\ pc = "serve"
    /\ observed.ops < MaxOps
    /\ \E email \in Emails, processed \in BOOLEAN :
           LET table == GetOrCreateUser(users, email, now)
               access_info == CheckUserAccess(table[email], now)
           IN  /\ users' = table
               /\ IF ~access_info.access
                  THEN response' = [status |-> 500, access |-> FALSE,
                                    called |-> FALSE, email |-> email]
                  ELSE response' = [status |-> IF processed THEN 200 ELSE 500,
                                    access |-> TRUE, called |-> TRUE, email |-> email]
               /\ observed' =
                      [observed EXCEPT
                          !.ops = @ + 1,
                          !.per_file[email].granted =
                              IF /\ access_info.access
                                 /\ observed.per_file[email].bought
                                 /\ TrialElapsed(table[email], now)
                              THEN @ + 1 ELSE @]
    /\ UNCHANGED <<engine_vars, unit_vars, earlier, now, requests, procs>>

\* thirty days pass
Tick ==
    /\ pc = "serve"
    /\ observed.ops < MaxOps
    /\ now' = now + TrialDays
    /\ observed' = [observed EXCEPT !.ops = @ + 1]
    /\ UNCHANGED <<engine_vars, unit_vars, earlier, users, requests, procs, response>>

NextAccess ==
    \/ Signup
    \/ PaymentSuccess
    \/ ProcessFiles
    \/ Tick

SpecAccess == InitAccess /\ [][NextAccess]_vars

\* C26, as stated: POST /api/process for a user whose access check returns
\* access = false responds with status 402 and never calls
\* process_excel_files.
Orig_C26 ==
    (response.email # "" /\ ~response.access) =>
        /\ response.status = 402
        /\ ~response.called

\* C27, as stated: after a per_file purchase and an elapsed trial,
\* check_user_access grants one processing request and denies the next
\* unless a further purchase is recorded.
Orig_C27 == \A email \in Emails : observed.per_file[email].granted <= 1

\* C28, as stated: once update_subscription_status(email, "lifetime") has
\* been applied, check_user_access grants the user access in every later
\* state, whatever follows.
Orig_C28 ==
    \A email \in observed.lifetime : CheckUserAccess(users[email], now).access

(***************************************************************************)
(* rate_limiter.py: the one SimpleRateLimiter shared by the three checks.  *)
(* The clock counts seconds.                                               *)
(***************************************************************************)
\* check_processing_rate_limit, check_signup_rate_limit,
\* check_payment_rate_limit: max_requests and window_seconds
ProcessingMax == 10
ProcessingWindow == 3600
SignupMax == 5
SignupWindow == 300
PaymentMax == 3
PaymentWindow == 300

\* "while requests[client_ip] and current_time - requests[client_ip][0] >
\* window_seconds: popleft()"
RECURSIVE CleanOld(_, _, _)
CleanOld(deque, current_time, window_seconds) ==
    IF deque # <<>> /\ current_time - Head(deque) > window_seconds
    THEN CleanOld(Tail(deque), current_time, window_seconds)
    ELSE deque

\* SimpleRateLimiter.is_allowed on the deque of the client: the pair it
\* returns and the deque it leaves
IsAllowed(deque, current_time, window_seconds, max_requests) ==
    LET kept == CleanOld(deque, current_time, window_seconds)
        current_requests == Len(kept)
    IN  IF current_requests < max_requests
        THEN [allowed |-> TRUE, remaining |-> max_requests - current_requests - 1,
              deque |-> Append(kept, current_time)]
        ELSE [allowed |-> FALSE, remaining |-> 0, deque |-> kept]

InitLimiter ==
    /\ pc = "limit"
    /\ files_data = <<>>
    /\ image_column = <<>>
    /\ name_column = <<>>
    /\ fi = 0
    /\ all_images = <<>>
    /\ zi = 0
    /\ seen_names = {}
    /\ saved_count = 0
    /\ duplicate_count = 0
    /\ manifest_rows = <<>>
    /\ zip_entries = <<>>
    /\ result = NoResult
    /\ letter = <<>>
    /\ index = [ok |-> FALSE, value |-> 0]
    /\ ServiceIdle
    /\ label = <<>>
    /\ stem = <<>>
    /\ content = <<>>
    /\ extension = <<>>

\* check_rate_limit(request, max_requests, window_seconds) for a client;
\* processing tells whether the call is check_processing_rate_limit
CheckRateLimit(client_ip, max_requests, window_seconds, processing) ==
    LET r == IsAllowed(requests[client_ip], now, window_seconds, max_requests)
    IN  /\ requests' = [requests EXCEPT ![client_ip] = r.deque]
        /\ observed' =
               [observed EXCEPT
                   !.verdict = [allowed |-> r.allowed, remaining |-> r.remaining,
                                recorded |-> r.deque =
                                    Append(CleanOld(requests[client_ip], now,
                                                    window_seconds), now)],
                   !.admitted[client_ip] =
                       IF processing /\ r.allowed THEN Append(@, now) ELSE @]

CheckProcessingRateLimit ==
    /\ pc = "limit"
    /\ \E client_ip \in ClientIps :
           /\ Len(observed.admitted[client_ip]) <= ProcessingMax
           /\ CheckRateLimit(client_ip, ProcessingMax, ProcessingWindow, TRUE)
    /\ UNCHANGED <<engine_vars, unit_vars, earlier, users, now, procs, response>>

CheckSignupRateLimit ==
    /\ pc = "limit"
    /\ \E client_ip \in ClientIps :
           CheckRateLimit(client_ip, SignupMax, SignupWindow, FALSE)
    /\ UNCHANGED <<engine_vars, unit_vars, earlier, users, now, procs, response>>

CheckPaymentRateLimit ==
    /\ pc = "limit"
    /\ \E client_ip \in ClientIps :
           CheckRateLimit(client_ip, PaymentMax, PaymentWindow, FALSE)
    /\ UNCHANGED <<engine_vars, unit_vars, earlier, users, now, procs, response>>

\* time.time() moves on by a little more than five minutes
ClockStep ==
    /\ pc = "limit"
    /\ now < MaxClockSteps * (SignupWindow + 1)
    /\ now' = now + SignupWindow + 1
    /\ UNCHANGED <<engine_vars, unit_vars, earlier, users, requests, procs, response,
                   observed>>

NextLimiter ==
    \/ CheckProcessingRateLimit
    \/ CheckSignupRateLimit
    \/ CheckPaymentRateLimit
    \/ ClockStep

SpecLimiter == InitLimiter /\ [][NextLimiter]_vars

\* the admitted processing requests of the client in the window of 3600
\* seconds that opens with its i-th one
AdmittedInWindow(client_ip, i) ==
    {j \in i..Len(observed.admitted[client_ip]) :
        observed.admitted[client_ip][j] - observed.admitted[client_ip][i] < 3600}

\* C29, as stated: for each client IP at most 10 processing requests are
\* admitted in any window of 3600 seconds, whatever calls of the three
\* checks the client interleaves; a denied request is not recorded and the
\* remaining count returned is never negative.
Orig_C29 ==
    /\ \A client_ip \in ClientIps :
           \A i \in 1..Len(observed.admitted[client_ip]) :
               Cardinality(AdmittedInWindow(client_ip, i)) <= 10
    /\ ~observed.verdict.allowed => ~observed.verdict.recorded
    /\ observed.verdict.remaining >= 0

(***************************************************************************)
(* Two requests served by two worker processes over the one users table.   *)
(* load_users reads the whole table, save_users replaces it (DELETE and    *)
(* INSERTs in one transaction); nothing holds the table between the two.   *)
(***************************************************************************)
\* each request works on its own email
EmailOf(p) == IF p = 1 THEN "a@x.io" ELSE "b@x.io"

InitStore ==
    /\ pc = "store"
    /\ users \in {NoUsers, [e \in Emails |-> CreateUser(0)]}
    /\ earlier = <<>>
    /\ now = 0
    /\ requests = [ip \in ClientIps |-> <<>>]
    /\ procs = [p \in Procs |-> NoProc]
    /\ response = NoResponse
    /\ observed = NothingObserved
    /\ files_data = <<>>
    /\ image_column = <<>>
    /\ name_column = <<>>
    /\ fi = 0
    /\ all_images = <<>>
    /\ zi = 0
    /\ seen_names = {}
    /\ saved_count = 0
    /\ duplicate_count = 0
    /\ manifest_rows = <<>>
    /\ zip_entries = <<>>
    /\ result = NoResult
    /\ letter = <<>>
    /\ index = [ok |-> FALSE, value |-> 0]
    /\ label = <<>>
    /\ stem = <<>>
    /\ content = <<>>
    /\ extension = <<>>

\* a request arrives: create_user(email), or
\* update_subscription_status(email, subscription_type)
StartRequest(p) ==
    /\ procs[p].pc = "idle"
    /\ \E op \in {"create_user", "update_subscription_status"} :
       \E subscription_type \in Plans :
           /\ op = "create_user" => subscription_type = "lifetime"
           /\ procs' = [procs EXCEPT ![p] =
                  [NoProc EXCEPT !.pc = "called", !.op = op, !.email = EmailOf(p),
                                 !.subscription_type =
                                     IF op = "create_user" THEN "" ELSE subscription_type]]
    /\ UNCHANGED users

\* "users = load_users()" of create_user or update_subscription_status
LoadUsers(p) ==
    /\ procs[p].pc = "called"
    /\ procs' = [procs EXCEPT ![p].users = users, ![p].pc = "loaded"]
    /\ UNCHANGED users

\* update_subscription_status: "if email not in users: users[email] =
\* create_user(email)"; this is the load_users of that create_user
InnerLoadUsers(p) ==
    /\ procs[p].pc = "loaded"
    /\ procs[p].op = "update_subscription_status"
    /\ ~procs[p].users[procs[p].email].exists
    /\ procs' = [procs EXCEPT ![p].inner = users, ![p].pc = "inner_loaded"]
    /\ UNCHANGED users

\* the save_users of that create_user; its user_data goes into the users
\* dict of update_subscription_status
InnerSaveUsers(p) ==
    /\ procs[p].pc = "inner_loaded"
    /\ users' = [procs[p].inner EXCEPT ![procs[p].email] = CreateUser(now)]
    /\ procs' = [procs EXCEPT ![p].users[procs[p].email] = CreateUser(now),
                              ![p].pc = "created"]

\* "users[email] = ...; save_users(users)": the table becomes the dict of
\* the request
SaveUsers(p) ==
    /\ \/ procs[p].pc = "created"
       \/ /\ procs[p].pc = "loaded"
          /\ \/ procs[p].op = "create_user"
             \/ procs[p].users[procs[p].email].exists
    /\ LET email == procs[p].email
           row == IF procs[p].op = "create_user" THEN CreateUser(now)
                  ELSE Subscribed(procs[p].users[email], procs[p].subscription_type,
                                  IF procs[p].subscription_type = "monthly"
                                  THEN Date(now + MonthDays) ELSE NoDate)
       IN  users' = [procs[p].users EXCEPT ![email] = row]
    /\ procs' = [procs EXCEPT ![p].pc = "done"]

NextStore ==
    /\ pc = "store"
    /\ \E p \in Procs :
           \/ StartRequest(p)
           \/ LoadUsers(p)
           \/ InnerLoadUsers(p)
           \/ InnerSaveUsers(p)
           \/ SaveUsers(p)
    /\ UNCHANGED <<engine_vars, unit_vars, earlier, now, requests, response, observed>>

SpecStore == InitStore /\ [][NextStore]_vars

\* the change of request p is in the users table
Committed(p) ==
    /\ users[EmailOf(p)].exists
    /\ procs[p].op = "update_subscription_status" =>
           users[EmailOf(p)].subscription_type = procs[p].subscription_type

\* C30, as stated: when two concurrent requests each load the users, change
\* their own user and save, both changes are in the users table afterwards;
\* no interleaving loses a record or an update the other has committed.
Orig_C30 ==
    \A p \in Procs : procs[p].pc = "done" => Committed(p)
====
